---- MODULE Spec2Model ----
(***************************************************************************)
(* Model of src/lib.rs of tatva-coloring: distance2_color_and_seeds and    *)
(* its helpers distance2_adjacency, greedy_color and seeds_from_colors.    *)
(*                                                                         *)
(* A Vec is a TLA+ sequence; the element the code writes v[i] (0-based)    *)
(* is At(v, i).  An AHashSet is a TLA+ set; iterating it yields its        *)
(* elements in an order the hasher decides, modelled as any permutation.   *)
(* An AHashMap is a TLA+ function whose DOMAIN is its key set.             *)
(* The f64 values 0.0 and 1.0 are the numbers 0 and 1.                     *)
(***************************************************************************)
EXTENDS Integers, Sequences, FiniteSets, TLC

\* ------------------------------------------------------------------ bounds
\* Largest number of CSR rows enumerated.
MaxDofs == 4
\* Largest number of stored column indices enumerated.
MaxNnz == 3
\* Width of usize in the model.  The build targets have 64 bits; the only
\* places where the width shows are the wrap of n_dofs + 1 at usize::MAX and
\* the capacity check of vec!, and both behave alike at any width.
UsizeBits == 16

\* ------------------------------------------------------ machine integers
UsizeModulus == 2 ^ UsizeBits
UsizeMax == UsizeModulus - 1
IsizeMax == (UsizeModulus \div 2) - 1
\* size_of::<Vec<usize>>(): pointer, capacity and length.
SizeOfVec == 3 * (UsizeBits \div 8)
I32Max == 2147483647

\* `v as usize` of an i64 (lines 26, 27, 29): reduction modulo 2^w.
AsUsize(v) == v % UsizeModulus

\* `c as i32` of a usize (line 39): the low 32 bits, read as two's complement.
AsI32(c) == IF c <= I32Max THEN c ELSE (c - I32Max) - I32Max - 2

\* usize addition with overflow checks off (release profile): wraps.
WrappingAdd(a, b) == (a + b) % UsizeModulus

\* vec![elem; n] panics with "capacity overflow" when n elements exceed
\* isize::MAX bytes.
AllocCapacityOverflow(n) == n * SizeOfVec > IsizeMax

\* ------------------------------------------------------------ Vec helpers
At(v, i) == v[i + 1]

Elems(v) == {v[p] : p \in 1..Len(v)}

Replicate(x, n) == [p \in 1..n |-> x]

\* ------------------------------------------------------------------ state
VARIABLES
    row_ptr,     \* input: the i64 row offsets
    col_idx,     \* input: the i64 column indices
    n_dofs,      \* input: usize
    pc,          \* position of the call
    adjacency,   \* Vec<Vec<usize>>, line 24
    adj2,        \* Vec<AHashSet<usize>>, line 48
    adjacency2,  \* Vec<Vec<usize>> collected at lines 65-72
    colors,      \* Vec<usize>, line 78
    i,           \* loop index of greedy_color, line 81
    result,      \* what the call returned
    prev         \* what the previous call with the same input returned

vars == <<row_ptr, col_idx, n_dofs, pc, adjacency, adj2, adjacency2, colors, i,
          result, prev>>

input == <<row_ptr, col_idx, n_dofs>>

NoResult == [kind |-> "none"]

\* ---------------------------------------------------------------- inputs
\* The column index arrays of length L over the DOFs of m rows.
ColumnArrays(m, L) == [1..L -> 0..(m - 1)]

\* The offset arrays of m rows over L stored entries: m + 1 non-decreasing
\* offsets from 0 to L.
OffsetArrays(m, L) ==
    {rp \in [1..(m + 1) -> 0..L] :
        /\ rp[1] = 0
        /\ rp[m + 1] = L
        /\ \A p \in 1..m : rp[p] <= rp[p + 1]}

\* The values of n_dofs passed with a pattern of m rows: m, or off by one.
DofCounts(m) == {m, m + 1} \cup (IF m > 0 THEN {m - 1} ELSE {})

\* The precondition the claims call well-formed.
WellFormed ==
    /\ Len(row_ptr) = n_dofs + 1
    /\ \A p \in 1..Len(row_ptr) : row_ptr[p] \in 0..Len(col_idx)
    /\ \A p \in 1..(Len(row_ptr) - 1) : row_ptr[p] <= row_ptr[p + 1]
    /\ \A p \in 1..Len(col_idx) : col_idx[p] \in 0..(n_dofs - 1)

Dofs == 0..(n_dofs - 1)

\* ------------------------------------------------ lines 23-30: CSR rows
\* Row r of the pattern: col_idx[start..end] cast to usize, in order.
BuildRow(r) ==
    LET start == AsUsize(At(row_ptr, r))
        end   == AsUsize(At(row_ptr, r + 1))
    IN  [p \in 1..(end - start) |-> AsUsize(At(col_idx, start + p - 1))]

BuildAdjacencyList == [p \in 1..n_dofs |-> BuildRow(p - 1)]

\* ------------------------------------- lines 46-63: distance2_adjacency
\* adj2[a].insert(b)
Insert(sets, a, b) == [sets EXCEPT ![a + 1] = @ \cup {b}]

\* A slip that records the edge on one side only.
InsertOneSided(sets, a, b) == Insert(sets, a, b)

\* adj2[a].insert(b); adj2[b].insert(a)  (lines 53-54 and 58-59)
InsertBoth(sets, a, b) == Insert(Insert(sets, a, b), b, a)

\* A slip that drops the k != i test of line 57.
RECURSIVE HopLoopNoSelfCheck(_, _, _, _)
HopLoopNoSelfCheck(sets, a, ks, p) ==
    IF p > Len(ks) THEN sets
    ELSE HopLoopNoSelfCheck(InsertBoth(sets, a, ks[p]), a, ks, p + 1)

\* lines 56-61: for &k in &adjacency[j], from position p on
RECURSIVE HopLoop(_, _, _, _)
HopLoop(sets, a, ks, p) ==
    IF p > Len(ks) THEN sets
    ELSE HopLoop(IF ks[p] # a THEN InsertBoth(sets, a, ks[p]) ELSE sets, a, ks, p + 1)

\* lines 51-62: for &j in neighs, from position p on
RECURSIVE NeighLoop(_, _, _, _)
NeighLoop(sets, adj, a, p) ==
    IF p > Len(At(adj, a)) THEN sets
    ELSE LET j      == At(adj, a)[p]
             direct == IF a # j THEN InsertBoth(sets, a, j) ELSE sets
         IN  NeighLoop(HopLoop(direct, a, At(adj, j), 1), adj, a, p + 1)

\* lines 50-63: for (i, neighs) in adjacency.iter().enumerate(), from row a on
RECURSIVE RowLoop(_, _, _)
RowLoop(sets, adj, a) ==
    IF a >= Len(adj) THEN sets
    ELSE RowLoop(NeighLoop(sets, adj, a, 1), adj, a + 1)

Distance2Sets(adj) == RowLoop(Replicate({}, Len(adj)), adj, 0)

\* ------------------------------------ lines 65-72: sort each neighbor set
\* The orders in which set.into_iter() may yield the elements of a hash set.
IterationOrders(S) ==
    {s \in [1..Cardinality(S) -> S] : \A p, q \in 1..Cardinality(S) : p # q => s[p] # s[q]}

\* Insertion of x into an ascending sequence.
RECURSIVE SortedInsert(_, _)
SortedInsert(s, x) ==
    IF s = <<>> THEN <<x>>
    ELSE IF x <= Head(s) THEN <<x>> \o s
    ELSE <<Head(s)>> \o SortedInsert(Tail(s), x)

RECURSIVE SortFrom(_, _)
SortFrom(v, acc) == IF v = <<>> THEN acc ELSE SortFrom(Tail(v), SortedInsert(acc, Head(v)))

\* A slip that collects the set and forgets to sort.
Unsorted(v) == v

\* v.sort_unstable() (line 69): ascending order.
SortUnstable(v) == SortFrom(v, <<>>)

\* ---------------------------------------------- lines 76-96: greedy_color
Unassigned == UsizeMax

\* *used.entry(c).or_insert(0) += 1  (line 86)
Bump(used, c) ==
    IF c \in DOMAIN used THEN [used EXCEPT ![c] = @ + 1] ELSE used @@ (c :> 1)

\* lines 83-88: for &nb in &adjacency[i], from position p on.  colors.get(nb)
\* is None when nb is out of range, and the neighbor is skipped.
RECURSIVE UsedLoop(_, _, _, _)
UsedLoop(used, nbs, cols, p) ==
    IF p > Len(nbs) THEN used
    ELSE LET nb == nbs[p]
         IN  IF nb >= Len(cols) THEN UsedLoop(used, nbs, cols, p + 1)
             ELSE IF At(cols, nb) # Unassigned
                  THEN UsedLoop(Bump(used, At(cols, nb)), nbs, cols, p + 1)
                  ELSE UsedLoop(used, nbs, cols, p + 1)

\* used.clear() followed by the loop of lines 83-88
UsedColors(nbs, cols) == UsedLoop(<<>>, nbs, cols, 1)

\* lines 89-92: let mut c = 0; while used.contains_key(&c) { c += 1 }
RECURSIVE ScanFrom(_, _)
ScanFrom(used, c) == IF c \in DOMAIN used THEN ScanFrom(used, c + 1) ELSE c

\* A slip that takes the number of colored neighbors for the free color.
CountColored(used) ==
    LET RECURSIVE Sum(_)
        Sum(K) == IF K = {} THEN 0
                  ELSE LET k == CHOOSE x \in K : TRUE IN used[k] + Sum(K \ {k})
    IN  Sum(DOMAIN used)

SmallestFree(used) == ScanFrom(used, 0)

\* A slip that starts every DOF at color 0 instead of the unassigned mark.
InitialColorsZero(n) == Replicate(0, n)

\* line 78: vec![usize::MAX; n]
InitialColors(n) == Replicate(Unassigned, n)

\* ----------------------------------------- lines 99-118: seeds_from_colors
RECURSIVE MaxOf(_)
MaxOf(v) == IF Len(v) = 1 THEN v[1]
            ELSE LET m == MaxOf(Tail(v)) IN IF v[1] >= m THEN v[1] ELSE m

\* A slip that numbers the colors from 1.
SeedShifted(cols, color) == [p \in 1..Len(cols) |-> IF cols[p] = color + 1 THEN 1 ELSE 0]

\* lines 109-114: the one-hot vector of one color
Seed(cols, color) == [p \in 1..Len(cols) |-> IF cols[p] = color THEN 1 ELSE 0]

\* lines 103-117 alone, without the early return: max_color falls back to 0.
SeedsNoEmptyCheck(cols) ==
    LET max_color == IF cols = <<>> THEN 0 ELSE MaxOf(cols)
    IN  [c \in 1..(max_color + 1) |-> Seed(cols, c - 1)]

SeedsFromColors(cols) ==
    IF cols = <<>> THEN <<>>
    ELSE LET max_color == MaxOf(cols)
             n_colors  == max_color + 1
         IN  [c \in 1..n_colors |-> Seed(cols, c - 1)]

\* line 39: colors.iter().map(|&c| c as i32)
ColorsPy(cols) == [p \in 1..Len(cols) |-> AsI32(cols[p])]

\* ------------------------------------------------------------------ Init
Init ==
    /\ \/ \E m \in 0..MaxDofs, L \in 0..MaxNnz :
              /\ row_ptr \in OffsetArrays(m, L)
              /\ col_idx \in ColumnArrays(m, L)
              /\ n_dofs \in DofCounts(m)
       \/ /\ row_ptr = <<>>
          /\ col_idx = <<>>
          /\ n_dofs \in {0, 1, UsizeMax}
    /\ pc = "validate"
    /\ adjacency = <<>>
    /\ adj2 = <<>>
    /\ adjacency2 = <<>>
    /\ colors = <<>>
    /\ i = 0
    /\ result = NoResult
    /\ prev = NoResult

\* ------------------------------------------------------------- the call
\* lines 17-21: the length check passes or returns PyValueError.  n_dofs + 1
\* at usize::MAX wraps when overflow checks are off.
Validate ==
    /\ pc = "validate"
    /\ IF Len(row_ptr) # WrappingAdd(n_dofs, 1)
       THEN /\ pc' = "error"
            /\ result' = [kind |-> "InvalidArgument", message |-> "row_ptr length must be n_dofs + 1"]
       ELSE /\ pc' = "build"
            /\ UNCHANGED result
    /\ UNCHANGED <<input, adjacency, adj2, adjacency2, colors, i, prev>>

\* line 17 with overflow checks on (debug profile): n_dofs + 1 panics.
ValidateOverflowPanic ==
    /\ pc = "validate"
    /\ n_dofs + 1 > UsizeMax
    /\ pc' = "panicked"
    /\ result' = [kind |-> "Panic", message |-> "attempt to add with overflow"]
    /\ UNCHANGED <<input, adjacency, adj2, adjacency2, colors, i, prev>>

\* line 24 when n_dofs Vecs do not fit: vec! panics with capacity overflow.
AllocPanic ==
    /\ pc = "build"
    /\ AllocCapacityOverflow(n_dofs)
    /\ pc' = "panicked"
    /\ result' = [kind |-> "Panic", message |-> "capacity overflow"]
    /\ UNCHANGED <<input, adjacency, adj2, adjacency2, colors, i, prev>>

\* lines 24-30
BuildAdjacency ==
    /\ pc = "build"
    /\ ~AllocCapacityOverflow(n_dofs)
    /\ adjacency' = BuildAdjacencyList
    /\ pc' = "distance2"
    /\ UNCHANGED <<input, adj2, adjacency2, colors, i, result, prev>>

\* lines 47-63
Distance2Accumulate ==
    /\ pc = "distance2"
    /\ adj2' = Distance2Sets(adjacency)
    /\ pc' = "normalize"
    /\ UNCHANGED <<input, adjacency, adjacency2, colors, i, result, prev>>

\* lines 65-72, one set per step: collect it in hash order, sort, push.
NormalizeStep ==
    /\ pc = "normalize"
    /\ Len(adjacency2) < Len(adj2)
    /\ \E order \in IterationOrders(At(adj2, Len(adjacency2))) :
           adjacency2' = Append(adjacency2, SortUnstable(order))
    /\ UNCHANGED <<input, pc, adjacency, adj2, colors, i, result, prev>>

\* lines 77-79
GreedyInit ==
    /\ pc = "normalize"
    /\ Len(adjacency2) = Len(adj2)
    /\ colors' = InitialColors(Len(adjacency2))
    /\ i' = 0
    /\ pc' = "greedy"
    /\ UNCHANGED <<input, adjacency, adj2, adjacency2, result, prev>>

\* lines 81-94, one DOF per step
GreedyStep ==
    /\ pc = "greedy"
    /\ i < Len(adjacency2)
    /\ colors' = [colors EXCEPT ![i + 1] = SmallestFree(UsedColors(At(adjacency2, i), colors))]
    /\ i' = i + 1
    /\ UNCHANGED <<input, pc, adjacency, adj2, adjacency2, result, prev>>

\* lines 95 and 38-42
Pack ==
    /\ pc = "greedy"
    /\ i >= Len(adjacency2)
    /\ result' = [kind |-> "Ok", coloring |-> ColorsPy(colors), seeds |-> SeedsFromColors(colors)]
    /\ pc' = "done"
    /\ UNCHANGED <<input, adjacency, adj2, adjacency2, colors, i, prev>>

\* The caller repeats a successful call with the same arguments.  Nothing of
\* the first call survives but what the caller kept of it.
CallAgain ==
    /\ pc = "done"
    /\ prev = NoResult
    /\ prev' = [result |-> result, adjacency2 |-> adjacency2]
    /\ pc' = "validate"
    /\ adjacency' = <<>>
    /\ adj2' = <<>>
    /\ adjacency2' = <<>>
    /\ colors' = <<>>
    /\ i' = 0
    /\ result' = NoResult
    /\ UNCHANGED input

Next ==
    \/ Validate
    \/ ValidateOverflowPanic
    \/ AllocPanic
    \/ BuildAdjacency
    \/ Distance2Accumulate
    \/ NormalizeStep
    \/ GreedyInit
    \/ GreedyStep
    \/ Pack
    \/ CallAgain

Spec == Init /\ [][Next]_vars

\* ================================================================ claims
Returned == pc = "done" /\ result.kind = "Ok"

\* adjacency2 is complete: distance2_adjacency has returned.
Expanded == pc \in {"greedy", "done"}

Coloring(d) == At(result.coloring, d)

Neighbors2(d) == Elems(At(adjacency2, d))

\* The columns row r references, read off the CSR arrays.
RowColumns(r) == {col_idx[p] : p \in (At(row_ptr, r) + 1)..At(row_ptr, r + 1)}

\* The least natural number outside the finite set S.
LeastNotIn(S) == CHOOSE c \in 0..Cardinality(S) : c \notin S /\ \A d \in 0..(c - 1) : d \in S

ColorsUsed == {Coloring(d) : d \in Dofs}

MaxColor == CHOOSE m \in ColorsUsed : \A c \in ColorsUsed : c <= m

\* C1: for a well-formed input the returned coloring is proper for the
\* distance-2 adjacency: a DOF and any DOF in its distance-2 neighbor list
\* never have the same color.
ProperColoring ==
    (Returned /\ WellFormed) =>
        \A a \in Dofs : \A b \in Neighbors2(a) : Coloring(a) # Coloring(b)

\* A returned coloring of a pattern where some DOF has two distance-2 neighbors.
ProperColoringWitness ==
    /\ Returned /\ WellFormed
    /\ \E a \in Dofs : Cardinality(Neighbors2(a)) >= 2

\* C2: for a well-formed input, symmetric or not, two distinct columns that
\* occur in one row never receive the same color.
SharedRowColumnsDiffer ==
    (Returned /\ WellFormed) =>
        \A r \in Dofs : \A j, k \in RowColumns(r) : j # k => Coloring(j) # Coloring(k)

\* C3: a call whose row_ptr length is not n_dofs + 1 ends in the
\* InvalidArgument error, with no adjacency, coloring or seed built and
\* nothing returned; a well-formed call never ends in an error.
LengthCheckedFirst ==
    /\ (pc # "validate" /\ Len(row_ptr) # n_dofs + 1) =>
           /\ pc = "error"
           /\ result.kind = "InvalidArgument"
           /\ adjacency = <<>> /\ adj2 = <<>> /\ adjacency2 = <<>> /\ colors = <<>>
    /\ WellFormed =>
           /\ pc \notin {"error", "panicked"}
           /\ pc = "done" => result.kind = "Ok"

\* C4: a successful call with n_dofs > 0 returns max_color + 1 seed vectors
\* of length n_dofs; seeds[c][d] is 1.0 when coloring[d] = c and 0.0
\* otherwise, so each DOF has its single 1.0 in the vector of its color.
SeedPartition ==
    (Returned /\ n_dofs > 0) =>
        /\ Len(result.seeds) = MaxColor + 1
        /\ \A c \in 0..MaxColor :
               /\ Len(At(result.seeds, c)) = n_dofs
               /\ \A d \in Dofs :
                      At(At(result.seeds, c), d) = (IF Coloring(d) = c THEN 1 ELSE 0)
        /\ \A d \in Dofs :
               {c \in 0..(Len(result.seeds) - 1) : At(At(result.seeds, c), d) = 1}
                   = {Coloring(d)}

\* A returned result with at least two seed vectors.
SeedPartitionWitness ==
    /\ Returned /\ n_dofs > 0
    /\ Len(result.seeds) >= 2

\* C5: for a well-formed input with n_dofs > 0 the colors used are exactly
\* 0..max_color, and every seed vector holds at least one 1.0.
ColorContiguity ==
    (Returned /\ WellFormed /\ n_dofs > 0) =>
        /\ ColorsUsed = 0..MaxColor
        /\ \A c \in 0..(Len(result.seeds) - 1) :
               \E d \in Dofs : At(At(result.seeds, c), d) = 1

\* A returned coloring with three colors in which a later DOF reuses color 0.
ColorContiguityWitness ==
    /\ Returned /\ WellFormed /\ n_dofs > 0
    /\ MaxColor >= 2
    /\ \E d \in Dofs : d > 0 /\ Coloring(d) = 0

\* C6: a second call with the same arguments returns the same coloring and
\* seeds as the first, and colors from the same sorted neighbor lists,
\* whatever order the hash sets yield their elements in.
Determinism ==
    (pc = "done" /\ prev # NoResult) =>
        /\ result = prev.result
        /\ adjacency2 = prev.adjacency2

\* A repeated call has returned for a pattern where some neighbor set has
\* several elements, so that its iteration order is a real choice.
DeterminismWitness ==
    /\ pc = "done" /\ prev # NoResult
    /\ \E a \in Dofs : Cardinality(At(adj2, a)) >= 2

\* C7: the call with n_dofs = 0, row_ptr = [0] and col_idx = [] is not an
\* error and returns an empty coloring and no seed vectors.
EmptyInput ==
    (n_dofs = 0 /\ row_ptr = <<0>> /\ col_idx = <<>>) =>
        /\ pc \notin {"error", "panicked"}
        /\ pc = "done" =>
               /\ result.kind = "Ok"
               /\ result.coloring = <<>>
               /\ result.seeds = <<>>

\* The empty call has returned.
EmptyInputWitness ==
    /\ pc = "done"
    /\ n_dofs = 0 /\ row_ptr = <<0>> /\ col_idx = <<>>

\* An edge of the undirected graph of the pattern: one of the two rows
\* references the other's column.
Edge(a, b) == b \in RowColumns(a) \/ a \in RowColumns(b)

\* The DOFs other than a within two hops of a in that undirected graph.
TwoHops(a) ==
    {k \in Dofs \ {a} : Edge(a, k) \/ \E j \in Dofs : Edge(a, j) /\ Edge(j, k)}

\* C8: for a well-formed pattern, symmetric or not, the list of DOF i is the
\* set of DOFs other than i within two hops of i in the undirected graph of
\* the pattern.
FullDistance2Neighborhood ==
    (Expanded /\ WellFormed) => \A a \in Dofs : Neighbors2(a) = TwoHops(a)

\* C9: for a well-formed pattern the distance-2 adjacency is symmetric, has
\* no self-loops, and each list is strictly increasing.
Distance2Shape ==
    (Expanded /\ WellFormed) =>
        /\ Len(adjacency2) = n_dofs
        /\ \A a, b \in Dofs : b \in Neighbors2(a) <=> a \in Neighbors2(b)
        /\ \A a \in Dofs : a \notin Neighbors2(a)
        /\ \A a \in Dofs : \A p \in 1..(Len(At(adjacency2, a)) - 1) :
               At(adjacency2, a)[p] < At(adjacency2, a)[p + 1]

\* The expansion of an asymmetric pattern with a diagonal or a repeated
\* entry, where some hash set had a real choice of order.
Distance2ShapeWitness ==
    /\ Expanded /\ WellFormed
    /\ \E a, b \in Dofs : a # b /\ b \in RowColumns(a) /\ a \notin RowColumns(b)
    /\ \/ \E a \in Dofs : a \in RowColumns(a)
       \/ \E r \in Dofs : \E p, q \in (At(row_ptr, r) + 1)..At(row_ptr, r + 1) :
              p < q /\ col_idx[p] = col_idx[q]
    /\ \E a \in Dofs : Len(At(adjacency2, a)) >= 2

\* C10: each step of greedy_color colors the next DOF in index order with
\* the least color that no lower-indexed distance-2 neighbor has; the
\* higher-indexed neighbors, unassigned until their own step, do not count,
\* and the colors assigned before stay as they are.
GreedyRule ==
    [][(pc = "greedy" /\ colors' # colors) =>
           /\ i' = i + 1
           /\ At(colors', i) =
                  LeastNotIn({At(colors, b) : b \in {x \in Neighbors2(i) : x < i}})
           /\ \A d \in 0..(Len(colors) - 1) : d # i => At(colors', d) = At(colors, d)
           /\ \A d \in 0..(i - 1) : At(colors, d) # Unassigned
           /\ \A d \in i..(Len(colors) - 1) : At(colors, d) = Unassigned]_vars

\* A DOF was given a color above 0 while it had a neighbor not yet visited.
GreedyRuleWitness ==
    /\ pc = "greedy"
    /\ \E d \in 0..(i - 1) :
           /\ At(colors, d) >= 1
           /\ \E b \in Neighbors2(d) : b >= i

====
